---------------------------- MODULE Spec2Model ----------------------------
(***************************************************************************)
(* Move-selection strategies of strategies.py: the local strategies        *)
(* RandomMove, Alphabetical and FirstMove, and LlamaEngine, which asks a    *)
(* remote inference endpoint for a move.  One invocation of                 *)
(* LlamaEngine.search is followed statement by statement (program counter  *)
(* pc); the endpoint's answer and the board are inputs drawn from small     *)
(* sets.                                                                    *)
(***************************************************************************)
EXTENDS Integers, Sequences, FiniteSets, TLC

VARIABLES
    pc,          \* position in the invocation
    engine,      \* the strategy class whose search() is running
    game,        \* lichess_game together with its board
    outbox,      \* the requests.post calls made by this invocation, in order
    response,    \* what requests.post returned
    result,      \* the local variable `result`
    locals,      \* move_str, illegal_moves, resign, move_count
    sent,        \* the conversation.send_message calls, in order
    parse_calls, \* the board.parse_san calls, in order
    decision,    \* the PlayResult returned
    error,       \* the exception that left search()
    prev         \* history: the previous invocation's inputs and outcome

vars == <<pc, engine, game, outbox, response, result, locals, sent,
          parse_calls, decision, error, prev>>

-----------------------------------------------------------------------------
(* Python values.  Every value is a record tagged with its type in t.       *)

None == [t |-> "NoneType"]
Absent == [t |-> "absent"]    \* a key the dict does not hold
Unbound == [t |-> "unbound"]  \* a local variable not assigned yet
PyBool(b) == [t |-> "bool", v |-> b]
PyStr(s) == [t |-> "str", v |-> s]
PyList(l) == [t |-> "list", v |-> l]
PyDict(d) == [t |-> "dict", v |-> d]
\* The str that json.dumps(x) writes: a text that decodes to x.
JsonText(x) == [t |-> "json", v |-> x]

\* Python truth value, as `if illegal_moves:` and `if resign:` take it.
Truthy(x) ==
    CASE x.t = "NoneType" -> FALSE
      [] x.t = "bool" -> x.v
      [] x.t = "list" -> Len(x.v) > 0
      [] x.t = "str" -> Len(x.v) > 0
      [] OTHER -> TRUE

\* dict.get(key) and dict.get(key, None).
dict_get(d, key) == IF key \in DOMAIN d.v THEN d.v[key] ELSE None

Ok(x) == [ok |-> TRUE, value |-> x]
Raise(exc) == [ok |-> FALSE, exc |-> exc]

-----------------------------------------------------------------------------
(* Strings.  Python compares str by code point; CodePoints lists the        *)
(* characters of the move notations in code-point order.                    *)

CodePoints ==
    "#+-0123456789=ABCDEFGHIJKLMNOPQRSTUVWXYZabcdefghijklmnopqrstuvwxyz"

Char(s, i) == SubSeq(s, i, i)

ord(c) == CHOOSE i \in 1..Len(CodePoints) : Char(CodePoints, i) = c

RECURSIVE StrLessFrom(_, _, _)
StrLessFrom(a, b, i) ==
    IF i > Len(a) THEN i <= Len(b)
    ELSE IF i > Len(b) THEN FALSE
    ELSE IF Char(a, i) = Char(b, i) THEN StrLessFrom(a, b, i + 1)
    ELSE ord(Char(a, i)) < ord(Char(b, i))

\* a < b on Python str.
StrLess(a, b) == StrLessFrom(a, b, 1)

Digits == "0123456789"

RECURSIVE Decimal(_)
\* str(n) of a non-negative int, as an f-string renders it.
Decimal(n) ==
    IF n < 10 THEN Char(Digits, n + 1)
    ELSE Decimal(n \div 10) \o Char(Digits, (n % 10) + 1)

RECURSIVE str_join(_, _)
\* sep.join(items)
str_join(sep, items) ==
    IF Len(items) = 0 THEN ""
    ELSE IF Len(items) = 1 THEN items[1]
    ELSE items[1] \o sep \o str_join(sep, Tail(items))

IsSubstring(a, b) ==
    \E i \in 1..(Len(b) - Len(a) + 1) : SubSeq(b, i, i + Len(a) - 1) = a

-----------------------------------------------------------------------------
(* Boards.  A board is what python-chess gives the strategies: its legal    *)
(* moves in generation order, each with its UCI string (str(move)) and its  *)
(* SAN (board.san(move)), the fullmove number and the movetext of the       *)
(* game so far.  A move is identified by its UCI string.                    *)

\* The initial position.
StartBoard ==
    [ fullmove_number |-> 1,
      movetext |-> "",
      moves |-> << <<"g1h3", "Nh3">>, <<"g1f3", "Nf3">>, <<"b1c3", "Nc3">>,
                   <<"b1a3", "Na3">>, <<"h2h3", "h3">>, <<"g2g3", "g3">>,
                   <<"f2f3", "f3">>, <<"e2e3", "e3">>, <<"d2d3", "d3">>,
                   <<"c2c3", "c3">>, <<"b2b3", "b3">>, <<"a2a3", "a3">>,
                   <<"h2h4", "h4">>, <<"g2g4", "g4">>, <<"f2f4", "f4">>,
                   <<"e2e4", "e4">>, <<"d2d4", "d4">>, <<"c2c4", "c4">>,
                   <<"b2b4", "b4">>, <<"a2a4", "a4">> >> ]

\* After 1. e4 d5 2. Bb5+: Black is in check and has five replies.
CheckBoard ==
    [ fullmove_number |-> 2,
      movetext |-> "1. e4 d5 2. Bb5+",
      moves |-> << <<"d8d7", "Qd7">>, <<"c8d7", "Bd7">>, <<"b8d7", "Nd7">>,
                   <<"b8c6", "Nc6">>, <<"c7c6", "c6">> >> ]

\* A game from the position 7k/8/8/8/8/8/p7/7K b - - 0 60: Black promotes.
PromotionBoard ==
    [ fullmove_number |-> 60,
      movetext |-> "",
      moves |-> << <<"h8g8", "Kg8">>, <<"h8h7", "Kh7">>, <<"h8g7", "Kg7">>,
                   <<"a2a1q", "a1=Q+">>, <<"a2a1r", "a1=R+">>,
                   <<"a2a1b", "a1=B">>, <<"a2a1n", "a1=N">> >> ]

\* lichess_game (model.Game) with the board the framework passes along.
Games ==
    { [board |-> StartBoard, white_rating |-> 1500, black_rating |-> 1612,
       my_color |-> "white"],
      [board |-> CheckBoard, white_rating |-> 2100, black_rating |-> 1987,
       my_color |-> "black"],
      [board |-> PromotionBoard, white_rating |-> 1450, black_rating |-> 1500,
       my_color |-> "black"] }

\* list(board.legal_moves)
legal_moves(board) == [i \in 1..Len(board.moves) |-> board.moves[i][1]]

LegalSet(board) == {board.moves[i][1] : i \in 1..Len(board.moves)}

\* board.san(move)
san(board, move) ==
    LET i == CHOOSE j \in 1..Len(board.moves) : board.moves[j][1] = move
    IN board.moves[i][2]

\* str(move)
uci(move) == move

\* Move.null(), whose UCI string is 0000.
NullMove == "0000"

\* The move of a PlayResult that carries none.
NoMove == "None"

\* PlayResult(move, None) and PlayResult(None, None, resigned=True).
PlayResult(move, resigned) == [move |-> move, resigned |-> resigned]

\* search() has returned nothing (yet).
NoDecision == [returned |-> FALSE]

-----------------------------------------------------------------------------
(* list.sort(key=...) and the local strategies.                             *)

RECURSIVE InsertByKey(_, _)
\* `sorted` holds <<key, item>> pairs in ascending key order; p goes after
\* every pair whose key is not greater (the sort is stable).
InsertByKey(sorted, p) ==
    IF Len(sorted) = 0 THEN <<p>>
    ELSE IF StrLess(p[1], sorted[1][1]) THEN <<p>> \o sorted
    ELSE <<sorted[1]>> \o InsertByKey(Tail(sorted), p)

RECURSIVE SortPairs(_, _)
SortPairs(pairs, n) ==
    IF n = 0 THEN <<>> ELSE InsertByKey(SortPairs(pairs, n - 1), pairs[n])

\* Mutant: the list is left in generation order.
list_sort_unsorted(keyed) == [i \in 1..Len(keyed) |-> keyed[i][2]]

\* The list after moves.sort(key=...): keyed[i] is <<key(moves[i]), moves[i]>>.
list_sort(keyed) ==
    LET s == SortPairs(keyed, Len(keyed)) IN [i \in 1..Len(s) |-> s[i][2]]

\* Alphabetical.search: moves.sort(key=board.san); moves[0]
Alphabetical_choice(board) ==
    LET moves == legal_moves(board)
        sorted == list_sort([i \in 1..Len(moves) |-> <<san(board, moves[i]), moves[i]>>])
    IN sorted[1]

\* FirstMove.search: moves.sort(key=str); moves[0]
FirstMove_choice(board) ==
    LET moves == legal_moves(board)
        sorted == list_sort([i \in 1..Len(moves) |-> <<uci(moves[i]), moves[i]>>])
    IN sorted[1]

\* RandomMove.search: random.choice(list(board.legal_moves))
RandomMove_choices(board) ==
    LET moves == legal_moves(board) IN {moves[i] : i \in 1..Len(moves)}

-----------------------------------------------------------------------------
(* The endpoint's answers: the inputs of LlamaEngine.search.                *)

\* Longest illegal_moves list the endpoint reports.
MaxIllegal == 2

\* timeout=300 of the POST.
TIMEOUT == 300

\* What the endpoint puts under "move".
MoveStrings == {"e4", "e2e4", "Bd7", "a1=Q+", "e5", "z9", "--", ""}

\* What the endpoint lists under "illegal_moves".
IllegalStrings == {"Ke2", "Qxf7#"}

MoveOptions == {Absent, None} \cup {PyStr(s) : s \in MoveStrings}

IllegalOptions ==
    {Absent, None}
        \cup {PyList(l) : l \in UNION {[1..n -> IllegalStrings] : n \in 0..MaxIllegal}}

ResignOptions == {Absent, None, PyBool(FALSE), PyBool(TRUE)}

\* The dict with the keys whose value is not Absent.
MakeDict(all) ==
    PyDict([k \in {x \in DOMAIN all : all[x].t # "absent"} |-> all[k]])

\* The decoded inner objects: `move`, `illegal_moves` and `resign`, each optional.
InferenceResults ==
    { MakeDict([move |-> mv, illegal_moves |-> il, resign |-> rs]) :
        mv \in MoveOptions, il \in IllegalOptions, rs \in ResignOptions }

\* HTTP bodies: {"output": "<json-encoded string>"} and the malformed ones.
Bodies ==
    { PyStr("<html>"),                                      \* not JSON
      JsonText(PyList(<<>>)),                                \* not an object
      JsonText(MakeDict([status |-> PyStr("IN_QUEUE")])),    \* no output yet
      JsonText(MakeDict([output |-> PyStr("oops")])),        \* output is no JSON
      JsonText(MakeDict([output |-> MakeDict([move |-> PyStr("e4")])])), \* encoded once
      JsonText(MakeDict([output |-> JsonText(PyList(<<>>))])) }  \* inner non-object
      \cup {JsonText(MakeDict([output |-> JsonText(r)])) : r \in InferenceResults}

StatusCodes == {200, 304, 404, 503}

\* What requests.post does: it raises, or returns a Response.
PostOutcomes ==
    {Raise("Timeout"), Raise("ConnectionError")}
        \cup {Ok([t |-> "Response", status_code |-> c, body |-> b]) :
                c \in StatusCodes, b \in Bodies}

-----------------------------------------------------------------------------
(* The library calls LlamaEngine.search makes.                              *)

\* Response.raise_for_status(): raises HTTPError for a 4xx or 5xx status.
raise_for_status(status_code) == 400 <= status_code /\ status_code < 600

\* json.loads(s) and Response.json(): s must be a str and hold JSON.
json_loads(s) ==
    IF s.t = "json" THEN Ok(s.v)
    ELSE IF s.t = "str" THEN Raise("JSONDecodeError")
    ELSE Raise("TypeError")

\* x.get(key): AttributeError unless x is a dict.
py_get(x, key) ==
    IF x.t = "dict" THEN Ok(dict_get(x, key)) ELSE Raise("AttributeError")

\* The notations python-chess reads as the null move.
NullSans == {"--", "Z0", "0000", "@@@@"}

\* Mutant: a missing move string is reported like an invalid one.
parse_san_none_invalid(board, s) ==
    IF s.t # "str" THEN Raise("ValueError")
    ELSE LET matched == {m \in LegalSet(board) : san(board, m) = s.v \/ uci(m) = s.v}
         IN IF Cardinality(matched) = 1 THEN Ok(CHOOSE m \in matched : TRUE)
            ELSE IF s.v \in NullSans THEN Ok(NullMove)
            ELSE Raise("ValueError")

\* board.parse_san(san): the legal move written san (its SAN, or the
\* over-specified long form), the null move for a null notation, ValueError
\* (InvalidMoveError, IllegalMoveError, AmbiguousMoveError) for anything
\* else; TypeError when san is no str.
parse_san(board, s) ==
    IF s.t # "str" THEN Raise("TypeError")
    ELSE LET matched == {m \in LegalSet(board) : san(board, m) = s.v \/ uci(m) = s.v}
         IN IF Cardinality(matched) = 1 THEN Ok(CHOOSE m \in matched : TRUE)
            ELSE IF Cardinality(matched) > 1 THEN Raise("ValueError")
            ELSE IF s.v \in NullSans THEN Ok(NullMove)
            ELSE Raise("ValueError")

\* conversation.send_message(room, message): the message goes to the room.
send_message(log, room, message) == Append(log, [room |-> room, text |-> message])

-----------------------------------------------------------------------------
(* LlamaEngine.search, statement by statement.                              *)

\* The pgn of the request: the two rating tags, then the movetext.
build_pgn(g) ==
    "[WhiteElo \"" \o Decimal(g.white_rating) \o "\"]\n[BlackElo \""
        \o Decimal(g.black_rating) \o "\"]\n\n" \o g.board.movetext

\* The POST: endpoint, headers, json=data, timeout.
build_request(g) ==
    [ url |-> "RUNPOD_RUNSYNC_ENDPOINT",
      headers |-> [Authorization |-> "Bearer RUNPOD_API_KEY",
                   ContentType |-> "application/json"],
      json |-> [pgn |-> build_pgn(g), color |-> g.my_color,
                move_count |-> g.board.fullmove_number],
      timeout |-> TIMEOUT ]

\* Mutant: only the first illegal move is listed.
illegal_moves_message_first_only(move_count, illegal_moves) ==
    "[Move " \o Decimal(move_count) \o "] tried " \o Decimal(Len(illegal_moves))
        \o " illegal move" \o (IF Len(illegal_moves) > 1 THEN "s" ELSE "")
        \o ":  " \o illegal_moves[1]

\* The f-string of the diagnostic.
illegal_moves_message(move_count, illegal_moves) ==
    "[Move " \o Decimal(move_count) \o "] tried " \o Decimal(Len(illegal_moves))
        \o " illegal move" \o (IF Len(illegal_moves) > 1 THEN "s" ELSE "")
        \o ":  " \o str_join(", ", illegal_moves)

\* Mutant: the report is skipped when the endpoint resigns.
ReportsIllegal_unless_resigning(l) == Truthy(l.illegal_moves) /\ ~Truthy(l.resign)

\* Mutant: `if illegal_moves is not None:`, which takes an empty list too.
ReportsIllegal_not_none(l) == l.illegal_moves.t = "list"

\* `if illegal_moves:` on the locals l.
ReportsIllegal(l) == Truthy(l.illegal_moves)

\* Mutant: a proposed move takes precedence over the resignation.
Resigns_unless_move(l) == Truthy(l.resign) /\ ~Truthy(l.move_str)

\* Mutant: the engine gives up when illegal moves were tried.
Resigns_on_illegal(l) == Truthy(l.resign) \/ Truthy(l.illegal_moves)

\* `if resign:` on the locals l.
Resigns(l) == Truthy(l.resign)

\* Mutant: a failed request is sent again.
OnException_retry(at) ==
    IF at \in {"post", "raise_for_status"} THEN "post" ELSE "raised"

\* An exception raised at a statement of search() leaves search(): nothing
\* catches it and nothing is tried again.
OnException(at) == "raised"

\* The locals of search() before their assignments.
NoLocals ==
    [move_count |-> 0, move_str |-> Unbound, illegal_moves |-> Unbound,
     resign |-> Unbound, message |-> ""]

Init ==
    /\ pc = "idle"
    /\ engine = "none"
    /\ game \in Games
    /\ outbox = <<>>
    /\ response = None
    /\ result = None
    /\ locals = NoLocals
    /\ sent = <<>>
    /\ parse_calls = <<>>
    /\ decision = NoDecision
    /\ error = "none"
    /\ prev = None


\* search() has returned or raised.
Terminal == pc \in {"returned", "raised"}

\* The invocation is one of LlamaEngine.search.
Llama == engine = "LlamaEngine"

\* Lines 118-120 have run: the response was decoded and its fields read.
Extracted == locals.resign.t # "unbound"

\* The state a new invocation starts from.
Fresh(name, g, move_count) ==
    /\ engine' = name
    /\ game' = g
    /\ outbox' = <<>>
    /\ response' = None
    /\ result' = None
    /\ locals' = [NoLocals EXCEPT !.move_count = move_count]
    /\ sent' = <<>>
    /\ parse_calls' = <<>>
    /\ error' = "none"

\* RandomMove.search(board)
RandomMove_search ==
    /\ pc = "idle"
    /\ \E g \in Games :
        /\ Len(g.board.moves) > 0
        /\ Fresh("RandomMove", g, 0)
        /\ \E m \in RandomMove_choices(g.board) : decision' = PlayResult(m, FALSE)
    /\ pc' = "returned"
    /\ UNCHANGED prev

\* Alphabetical.search(board)
Alphabetical_search ==
    /\ pc = "idle"
    /\ \E g \in Games :
        /\ Len(g.board.moves) > 0
        /\ Fresh("Alphabetical", g, 0)
        /\ decision' = PlayResult(Alphabetical_choice(g.board), FALSE)
    /\ pc' = "returned"
    /\ UNCHANGED prev

\* FirstMove.search(board)
FirstMove_search ==
    /\ pc = "idle"
    /\ \E g \in Games :
        /\ Len(g.board.moves) > 0
        /\ Fresh("FirstMove", g, 0)
        /\ decision' = PlayResult(FirstMove_choice(g.board), FALSE)
    /\ pc' = "returned"
    /\ UNCHANGED prev

\* LlamaEngine.search(lichess_game, board, li), called with a game of
\* `games`: lines 72-105 build the request.
LlamaEngine_search(games) ==
    /\ pc = "idle"
    /\ \E g \in games :
        /\ Fresh("LlamaEngine", g, g.board.fullmove_number)
    /\ pc' = "post"
    /\ UNCHANGED <<decision, prev>>

\* Line 108: the requests.post of the invocation, which ends in one of
\* `outcomes`.
Post(outcomes) ==
    /\ pc = "post"
    /\ outbox' = Append(outbox, build_request(game))
    /\ \E o \in outcomes :
        IF o.ok
        THEN /\ response' = o.value
             /\ pc' = "raise_for_status"
             /\ error' = error
        ELSE /\ response' = response
             /\ pc' = OnException("post")
             /\ error' = o.exc
    /\ UNCHANGED <<engine, game, result, locals, sent, parse_calls, decision, prev>>

\* Line 112: response.raise_for_status()
RaiseForStatus ==
    /\ pc = "raise_for_status"
    /\ IF raise_for_status(response.status_code)
       THEN pc' = OnException("raise_for_status") /\ error' = "HTTPError"
       ELSE pc' = "read_output" /\ error' = error
    /\ UNCHANGED <<engine, game, outbox, response, result, locals, sent,
                   parse_calls, decision, prev>>

\* Line 115: result = response.json().get('output')
ReadOutput ==
    /\ pc = "read_output"
    /\ LET body == json_loads(response.body)
           output == IF body.ok THEN py_get(body.value, "output") ELSE body
       IN IF output.ok
          THEN result' = output.value /\ pc' = "loads" /\ error' = error
          ELSE result' = result /\ pc' = OnException("read_output")
               /\ error' = output.exc
    /\ UNCHANGED <<engine, game, outbox, response, locals, sent, parse_calls,
                   decision, prev>>

\* Line 116: result = json.loads(result)
LoadResult ==
    /\ pc = "loads"
    /\ LET loaded == json_loads(result)
       IN IF loaded.ok
          THEN result' = loaded.value /\ pc' = "extract" /\ error' = error
          ELSE result' = result /\ pc' = OnException("loads")
               /\ error' = loaded.exc
    /\ UNCHANGED <<engine, game, outbox, response, locals, sent, parse_calls,
                   decision, prev>>

\* Lines 118-120: the three result.get calls.
Extract ==
    /\ pc = "extract"
    /\ LET mv == py_get(result, "move")
           il == py_get(result, "illegal_moves")
           rs == py_get(result, "resign")
       IN IF mv.ok
          THEN /\ locals' = [locals EXCEPT !.move_str = mv.value,
                                           !.illegal_moves = il.value,
                                           !.resign = rs.value]
               /\ pc' = "if_illegal"
               /\ error' = error
          ELSE /\ locals' = locals
               /\ pc' = OnException("extract")
               /\ error' = mv.exc
    /\ UNCHANGED <<engine, game, outbox, response, result, sent, parse_calls,
                   decision, prev>>

\* Lines 121-122: if illegal_moves: build the message.
IfIllegal ==
    /\ pc = "if_illegal"
    /\ IF ReportsIllegal(locals)
       THEN /\ locals' = [locals EXCEPT !.message =
                    illegal_moves_message(locals.move_count, locals.illegal_moves.v)]
            /\ pc' = "send_player"
       ELSE /\ locals' = locals
            /\ pc' = "if_resign"
    /\ UNCHANGED <<engine, game, outbox, response, result, sent, parse_calls,
                   decision, error, prev>>

\* Line 123: conversation.send_message("player", illegal_moves_message)
SendPlayer ==
    /\ pc = "send_player"
    /\ sent' = send_message(sent, "player", locals.message)
    /\ pc' = "send_spectator"
    /\ UNCHANGED <<engine, game, outbox, response, result, locals, parse_calls,
                   decision, error, prev>>

\* Line 124: conversation.send_message("spectator", illegal_moves_message)
SendSpectator ==
    /\ pc = "send_spectator"
    /\ sent' = send_message(sent, "spectator", locals.message)
    /\ pc' = "if_resign"
    /\ UNCHANGED <<engine, game, outbox, response, result, locals, parse_calls,
                   decision, error, prev>>

\* Lines 126-127: if resign: return PlayResult(None, None, resigned=True)
IfResign ==
    /\ pc = "if_resign"
    /\ IF Resigns(locals)
       THEN decision' = PlayResult(NoMove, TRUE) /\ pc' = "returned"
       ELSE decision' = decision /\ pc' = "parse"
    /\ UNCHANGED <<engine, game, outbox, response, result, locals, sent,
                   parse_calls, error, prev>>

\* Lines 130-132: move = board.parse_san(move_str); return PlayResult(move, None)
ParseMove ==
    /\ pc = "parse"
    /\ parse_calls' = Append(parse_calls, locals.move_str)
    /\ LET move == parse_san(game.board, locals.move_str)
       IN IF move.ok
          THEN decision' = PlayResult(move.value, FALSE) /\ pc' = "returned"
               /\ error' = error
          ELSE decision' = decision /\ pc' = OnException("parse")
               /\ error' = move.exc
    /\ UNCHANGED <<engine, game, outbox, response, result, locals, sent, prev>>

\* The framework takes the decision or the exception; the next turn follows.
NextTurn ==
    /\ Terminal
    /\ pc' = "idle"
    /\ engine' = "none"
    /\ outbox' = <<>>
    /\ response' = None
    /\ result' = None
    /\ locals' = NoLocals
    /\ sent' = <<>>
    /\ parse_calls' = <<>>
    /\ decision' = NoDecision
    /\ error' = "none"
    /\ UNCHANGED <<game, prev>>

Next ==
    \/ RandomMove_search
    \/ Alphabetical_search
    \/ FirstMove_search
    \/ LlamaEngine_search(Games)
    \/ Post(PostOutcomes)
    \/ RaiseForStatus
    \/ ReadOutput
    \/ LoadResult
    \/ Extract
    \/ IfIllegal
    \/ SendPlayer
    \/ SendSpectator
    \/ IfResign
    \/ ParseMove
    \/ NextTurn

Spec == Init /\ [][Next]_vars

-----------------------------------------------------------------------------
(* Two invocations side by side.  SpecTwin keeps, in the history variable   *)
(* prev, one finished invocation of LlamaEngine.search whose response was   *)
(* decoded, and lets every later invocation run on the same board with a    *)
(* response that has the same `move` and `resign` fields.                   *)

\* The dict without one key.
Without(d, key) == [k \in DOMAIN d.v \ {key} |-> d.v[k]]

\* The field of a dict as the endpoint wrote it.
RawField(d, key) == IF key \in DOMAIN d.v THEN d.v[key] ELSE Absent

\* The body is {"output": "<json of an object>"}.
Decodable(body) ==
    /\ body.t = "json" /\ body.v.t = "dict"
    /\ "output" \in DOMAIN body.v.v
    /\ body.v.v["output"].t = "json"
    /\ body.v.v["output"].v.t = "dict"

\* How the invocation ended.
Outcome == [pc |-> pc, decision |-> decision, error |-> error]

\* The finished invocation is kept and the next turn follows.
Remember ==
    /\ Terminal
    /\ Llama
    /\ Extracted
    /\ prev.t = "NoneType"
    /\ prev' = [t |-> "run", game |-> game,
                fields |-> Without(result, "illegal_moves"),
                illegal_moves |-> RawField(result, "illegal_moves"),
                outcome |-> Outcome]
    /\ pc' = "idle"
    /\ engine' = "none"
    /\ outbox' = <<>>
    /\ response' = None
    /\ result' = None
    /\ locals' = NoLocals
    /\ sent' = <<>>
    /\ parse_calls' = <<>>
    /\ decision' = NoDecision
    /\ error' = "none"
    /\ UNCHANGED game

\* The answers that differ from the kept response in illegal_moves at most.
TwinOutcomes ==
    { Ok([t |-> "Response", status_code |-> 200,
          body |-> JsonText(MakeDict([output |-> JsonText(MakeDict(
              [k \in {"move", "illegal_moves", "resign"} |->
                  IF k = "illegal_moves" THEN il
                  ELSE IF k \in DOMAIN prev.fields THEN prev.fields[k]
                  ELSE Absent]))]))]) :
        il \in IllegalOptions }

\* Before an invocation is kept, every step of the program; afterwards,
\* LlamaEngine.search on the same board with one of TwinOutcomes.
TwinNext ==
    \/ prev.t = "NoneType" /\ Next
    \/ Remember
    \/ prev.t = "run" /\ LlamaEngine_search({prev.game})
    \/ prev.t = "run" /\ Post(TwinOutcomes)
    \/ prev.t = "run" /\ RaiseForStatus
    \/ prev.t = "run" /\ ReadOutput
    \/ prev.t = "run" /\ LoadResult
    \/ prev.t = "run" /\ Extract
    \/ prev.t = "run" /\ IfIllegal
    \/ prev.t = "run" /\ SendPlayer
    \/ prev.t = "run" /\ SendSpectator
    \/ prev.t = "run" /\ IfResign
    \/ prev.t = "run" /\ ParseMove
    \/ prev.t = "run" /\ NextTurn

SpecTwin == Init /\ [][TwinNext]_vars

-----------------------------------------------------------------------------
(* Vocabulary of the properties.                                            *)

\* The error kinds of the specification, as the exceptions that carry them.
TransportErrors == {"Timeout", "ConnectionError", "HTTPError"}
ResponseFormatErrors == {"JSONDecodeError", "TypeError", "AttributeError"}
InvalidMoveErrors == {"ValueError"}

HasIllegalMoves == locals.illegal_moves.t = "list" /\ Len(locals.illegal_moves.v) > 0

MessagesTo(room) == {i \in DOMAIN sent : sent[i].room = room}

\* The string s is a notation of a legal move of the board.
DenotesLegal(board, s) ==
    \E m \in LegalSet(board) : san(board, m) = s \/ uci(m) = s

-----------------------------------------------------------------------------
(* C1: once the decoded response has resign = true, search() returns a      *)
(* decision with no move and the resignation flag set, whatever the move    *)
(* string and the illegal_moves list are; board.parse_san is never called   *)
(* and no exception leaves search().                                        *)
ResignTakesPrecedence ==
    (Llama /\ Extracted /\ locals.resign.t = "bool" /\ locals.resign.v)
        => /\ parse_calls = <<>>
           /\ pc # "parse"
           /\ error = "none"
           /\ Terminal => /\ pc = "returned"
                          /\ decision = PlayResult(NoMove, TRUE)

\* A resignation came with an unparseable move and a report of illegal moves.
ResignWitness ==
    /\ Llama /\ pc = "returned" /\ Extracted
    /\ locals.resign.t = "bool" /\ locals.resign.v
    /\ locals.move_str.t = "str" /\ locals.move_str.v = "z9"
    /\ HasIllegalMoves
    /\ decision = PlayResult(NoMove, TRUE)

-----------------------------------------------------------------------------
(* C2: when the decoded illegal_moves list is not empty, a finished          *)
(* invocation has sent exactly one message to the player room and exactly   *)
(* one to the spectator room, and each of them holds the number of illegal  *)
(* moves and every string of the list.                                      *)
IllegalMovesReportedOnce ==
    (Llama /\ Terminal /\ Extracted /\ HasIllegalMoves)
        => /\ Cardinality(MessagesTo("player")) = 1
           /\ Cardinality(MessagesTo("spectator")) = 1
           /\ Len(sent) = 2
           /\ \A i \in DOMAIN sent :
                /\ IsSubstring(" " \o Decimal(Len(locals.illegal_moves.v)) \o " ",
                               sent[i].text)
                /\ \A j \in DOMAIN locals.illegal_moves.v :
                     IsSubstring(locals.illegal_moves.v[j], sent[i].text)

\* Two different illegal moves were reported and the turn then failed.
IllegalMovesReportedWitness ==
    /\ Llama /\ pc = "raised" /\ Extracted
    /\ locals.illegal_moves.t = "list"
    /\ locals.illegal_moves.v = <<"Ke2", "Qxf7#">>
    /\ sent = << [room |-> "player", text |-> "[Move 1] tried 2 illegal moves:  Ke2, Qxf7#"],
                 [room |-> "spectator", text |-> "[Move 1] tried 2 illegal moves:  Ke2, Qxf7#"] >>

-----------------------------------------------------------------------------
(* C6: when the decoded response has no move string, no illegal move to      *)
(* report and no resignation, search() ends with an exception of the        *)
(* response-format kind, which is not the invalid-move error, and returns   *)
(* no decision, so no default move.                                         *)
MissingMoveFails ==
    (Llama /\ Terminal /\ Extracted
        /\ locals.move_str.t = "NoneType"
        /\ locals.illegal_moves.t \in {"NoneType", "list"}
        /\ ~Truthy(locals.illegal_moves)
        /\ locals.resign.t \in {"NoneType", "bool"}
        /\ ~Truthy(locals.resign))
        => /\ pc = "raised"
           /\ error \in ResponseFormatErrors
           /\ error \notin InvalidMoveErrors
           /\ decision = NoDecision

\* The response was the empty object: search() failed at the parse.
MissingMoveWitness ==
    /\ Llama /\ pc = "raised" /\ Extracted
    /\ result.t = "dict" /\ DOMAIN result.v = {}
    /\ Len(parse_calls) = 1
    /\ error = "TypeError"

-----------------------------------------------------------------------------
(* C8: on a board with a legal move, RandomMove, Alphabetical and FirstMove  *)
(* each return a legal move of the board; Alphabetical returns the one      *)
(* whose SAN is least and FirstMove the one whose UCI string is least.      *)
LocalStrategiesChooseLegal ==
    (pc = "returned" /\ engine \in {"RandomMove", "Alphabetical", "FirstMove"})
        => /\ decision.move \in LegalSet(game.board)
           /\ ~decision.resigned
           /\ engine = "Alphabetical" =>
                \A m \in LegalSet(game.board) \ {decision.move} :
                    StrLess(san(game.board, decision.move), san(game.board, m))
           /\ engine = "FirstMove" =>
                \A m \in LegalSet(game.board) \ {decision.move} :
                    StrLess(uci(decision.move), uci(m))

\* Alphabetical plays Na3 in the initial position; a2a3 has the least UCI string.
AlphabeticalWitness ==
    /\ pc = "returned" /\ engine = "Alphabetical"
    /\ game.board = StartBoard
    /\ decision.move = "b1a3"

-----------------------------------------------------------------------------
(* C10: a message is sent only after the POST returned a response that      *)
(* raise_for_status accepted, the body was decoded twice and the decoded    *)
(* illegal_moves list is not empty; an invocation that ends in a transport  *)
(* failure or an undecodable body, or whose illegal_moves is absent or      *)
(* empty, has sent nothing.                                                 *)
MessagesOnlyForIllegalMoves ==
    /\ sent # <<>>
        => /\ Llama
           /\ Len(outbox) = 1
           /\ response.t = "Response"
           /\ error \notin TransportErrors
           /\ result.t = "dict"
           /\ Extracted
           /\ HasIllegalMoves
    /\ (Llama /\ Terminal /\ (error \in TransportErrors \/ ~Extracted \/ ~HasIllegalMoves))
        => sent = <<>>

\* A turn with an empty illegal_moves list ended in a move and no message.
NoMessageWitness ==
    /\ Llama /\ pc = "returned" /\ Extracted
    /\ locals.illegal_moves.t = "list" /\ locals.illegal_moves.v = <<>>
    /\ sent = <<>>
    /\ decision.move = "e2e4"

-----------------------------------------------------------------------------
(* C3: one invocation of LlamaEngine.search issues exactly one POST.          *)

\* requests.post raised (a timeout, a connection error).
PostRaised == response.t = "NoneType" /\ error \in {"Timeout", "ConnectionError"}

TransportFailureEndsTurn ==
    /\ pc = "raised"
    /\ error \in TransportErrors
    /\ decision = NoDecision
    /\ Len(outbox) = 1

-----------------------------------------------------------------------------
(* C4 as stated: when resign is not true and the move string is not a        *)
(* notation of a legal move of the board (malformed or illegal), search()   *)
(* ends in the invalid-move error and returns no decision.                  *)
InvalidMoveFails ==
    (Llama /\ Terminal /\ Extracted
        /\ ~Truthy(locals.resign)
        /\ locals.move_str.t = "str"
        /\ ~DenotesLegal(game.board, locals.move_str.v))
        => /\ pc = "raised"
           /\ error \in InvalidMoveErrors
           /\ decision = NoDecision

-----------------------------------------------------------------------------
(* C7 as stated: every decision LlamaEngine.search returns carries either a  *)
(* move that is legal on the board, with the resignation flag unset, or no  *)
(* move with the resignation flag set.                                      *)
DecisionIsLegalMoveOrResignation ==
    (Llama /\ pc = "returned")
        => \/ decision.move \in LegalSet(game.board) /\ ~decision.resigned
           \/ decision.move = NoMove /\ decision.resigned

-----------------------------------------------------------------------------
(* C5: when the response reports illegal moves, the step that ends the       *)
(* invocation, whether it raises the error or returns the resignation or    *)
(* the move, is taken only after the message went to the player room and    *)
(* then to the spectator room.                                              *)
DiagnosticsBeforeOutcome ==
    [][ (Llama /\ ~Terminal /\ Terminal' /\ Extracted' /\ HasIllegalMoves')
            => /\ Len(sent) = 2
               /\ sent[1].room = "player" /\ sent[2].room = "spectator"
               /\ sent[1].text = locals.message /\ sent[2].text = locals.message
               /\ sent' = sent ]_vars

\* The move did not parse, and both messages had been sent by then.
DiagnosticsBeforeErrorWitness ==
    /\ Llama /\ pc = "raised" /\ Extracted /\ HasIllegalMoves
    /\ error = "ValueError"
    /\ Len(sent) = 2

-----------------------------------------------------------------------------
(* C9: two invocations on the same board whose decoded responses have the    *)
(* same move and resign fields, and differ in illegal_moves at most, end    *)
(* the same way: the same move, the same resignation or the same error.     *)
OutcomeIgnoresIllegalMoves ==
    (Llama /\ Terminal /\ Extracted /\ prev.t = "run"
        /\ game = prev.game
        /\ Without(result, "illegal_moves") = prev.fields)
        => Outcome = prev.outcome

\* One response reported no illegal moves, the other two; both turns failed
\* at the same unparseable move.
TwinWitness ==
    /\ Llama /\ pc = "raised" /\ Extracted /\ prev.t = "run"
    /\ prev.illegal_moves.t = "absent"
    /\ HasIllegalMoves /\ Len(locals.illegal_moves.v) = 2
    /\ locals.move_str.t = "str" /\ locals.move_str.v = "z9"
    /\ Outcome = prev.outcome

=============================================================================
